---- MODULE Spec2Model ----
(***************************************************************************)
(* A model of the batch image annotators of this repository:               *)
(*   anthropic/kapok-tree-image-tagger-anthropic-v2.py  (script "v2")      *)
(*   kapok-tree-tagger-anthropic.py                     (script "v1")      *)
(*   kapok-tree-image-tagger.py                         (script "gemini")  *)
(*                                                                         *)
(* Text is a sequence of tokens; error messages are sequences of single    *)
(* characters, so that substring tests and slices are computed.  A CSV     *)
(* file is the sequence of its rows and a row the sequence of its cells;   *)
(* the csv library's quoting is taken to round-trip a row.  Time is in     *)
(* milliseconds.  The token "<fence>" is a markdown code fence (three       *)
(* backquotes) and "<nl>" a line break.                                    *)
(***************************************************************************)
EXTENDS Integers, Sequences, FiniteSets, TLC

\* ------------------------------------------------------------------ bounds
\* How many of FileNames can be entries of the image directory.
NumFiles == 3
\* How many times a script is started in one behaviour.
MaxRuns == 2

\* ------------------------------------------------------- program constants
MAX_RETRIES == 3
\* DELAY_BETWEEN_REQUESTS = 1.0 seconds, in milliseconds.
DELAY_BETWEEN_REQUESTS == 1000
\* error_msg[:200]
ERROR_DETAIL_LIMIT == 200

SUPPORTED_EXTENSIONS == {".jpg", ".jpeg", ".png", ".gif", ".webp"}

\* The status codes whose text makes an exception retryable.
RETRYABLE_CODES == {<<"4", "2", "9">>, <<"5", "0", "0">>, <<"5", "0", "2">>,
                    <<"5", "0", "3">>, <<"5", "2", "9">>}

\* --------------------------------------------------------------- utilities
Min(a, b) == IF a < b THEN a ELSE b

RECURSIVE Pow2(_)
Pow2(n) == IF n = 0 THEN 1 ELSE 2 * Pow2(n - 1)

\* A string constant as text (one token).
Str(s) == <<s>>

\* s[:n]
take_all(s, n) == s
Take(s, n) == SubSeq(s, 1, Min(n, Len(s)))

\* `code in error_msg`: code is a contiguous slice of msg.
Contains(code, msg) ==
    \E k \in 0..(Len(msg) - Len(code)) : SubSeq(msg, k + 1, k + Len(code)) = code

IsPrefix(s, t) == Len(s) <= Len(t) /\ SubSeq(t, 1, Len(s)) = s

Range(s) == {s[k] : k \in 1..Len(s)}

\* ------------------------------------------------------------ the directory
\* The names a directory entry can have, in sorted() order.
FileNames == <<"a.png", "b.JPG", "c.txt", "d.webp", "e.gif">>

Entries == {FileNames[k] : k \in 1..Min(NumFiles, Len(FileNames))}

\* Path.suffix
Suffix(name) ==
    CASE name = "a.png" -> ".png"
      [] name = "b.JPG" -> ".JPG"
      [] name = "c.txt" -> ".txt"
      [] name = "d.webp" -> ".webp"
      [] name = "e.gif" -> ".gif"

\* str.lower() on the suffixes above
Lower(ext) == IF ext = ".JPG" THEN ".jpg" ELSE ext

\* sorted(S): the names of S in the order of FileNames.
Sorted(S) == SelectSeq(FileNames, LAMBDA f : f \in S)

\* The pixel size Image.open finds in each image.
ImageSize(name) ==
    CASE name = "a.png" -> [width |-> 800, height |-> 600]
      [] name = "b.JPG" -> [width |-> 500, height |-> 500]
      [] name = "d.webp" -> [width |-> 600, height |-> 800]
      [] OTHER -> [width |-> 640, height |-> 480]

get_orientation(img) == IF img.width > img.height THEN "landscape" ELSE "portrait"

\* ------------------------------------------------------------------ the CSV
FIELDNAMES == <<Str("filename"), Str("short_description"), Str("long_description"),
                Str("tags"), Str("orientation")>>

IndexOf(cell, row) ==
    IF cell \in Range(row) THEN CHOOSE k \in 1..Len(row) : row[k] = cell
                               /\ \A j \in 1..(k - 1) : row[j] # cell
    ELSE 0

\* csv.DictReader + the set comprehension: the first row names the columns, and
\* every later row contributes its non-empty "filename" cell.
load_existing_results_empty(file) == {}
load_existing_results_retry_failed(file) ==
    IF ~file.exists \/ file.rows = <<>> THEN {}
    ELSE LET col == IndexOf(Str("filename"), file.rows[1])
             tag == IndexOf(Str("tags"), file.rows[1])
         IN {file.rows[k][col] : k \in {j \in 2..Len(file.rows) :
                                          /\ col # 0 /\ tag # 0
                                          /\ file.rows[j][tag] # Str("error, failed_analysis")}}
load_existing_results(file) ==
    IF ~file.exists \/ file.rows = <<>> THEN {}
    ELSE LET col == IndexOf(Str("filename"), file.rows[1])
         IN {file.rows[k][col] : k \in {j \in 2..Len(file.rows) :
                                          /\ col # 0
                                          /\ col <= Len(file.rows[j])
                                          /\ file.rows[j][col] # <<>>}}

\* to_process = [f for f in image_files if f.name not in already_done]
resume_filter_all(image_files, already_done) == image_files
resume_filter(image_files, already_done) ==
    SelectSeq(image_files, LAMBDA f : Str(f) \notin already_done)

\* write_header = not output_csv.exists() or output_csv.stat().st_size == 0
write_header_always(file) == TRUE
write_header(file) == ~file.exists \/ file.rows = <<>>

\* open(output_csv, "a"): creates the file when absent, keeps its content.
open_truncate(file) == [exists |-> TRUE, rows |-> <<>>]
open_append(file) == [exists |-> TRUE, rows |-> file.rows]

\* The header row of the third script's CSV.
GEMINI_FIELDNAMES == <<Str("filename"), Str("description"), Str("tags")>>

\* The rows of a file that are not a header row.
Records(rows) == SelectSeq(rows, LAMBDA r : r \notin {FIELDNAMES, GEMINI_FIELDNAMES})
HeaderCount(rows) == Cardinality({k \in 1..Len(rows) : rows[k] = FIELDNAMES})

\* ---------------------------------------------------------- the vision API
\* str(e) of the exceptions client.messages.create can raise.
Msg401 == <<"E", " ", "4", "0", "1">>
\* A 400 whose text holds "500" inside a longer number.
Msg400 == <<"E", " ", "4", "0", "0", " ", "1", "5", "0", "0", "0">>
\* The 429 carries a body that runs past the 200 characters analyze_image keeps.
LongBody == [k \in 1..(ERROR_DETAIL_LIMIT + 1) |-> "x"]
Msg429 == <<"E", " ", "4", "2", "9", " ">> \o LongBody

Exceptions == {[status |-> 401, msg |-> Msg401],
               [status |-> 400, msg |-> Msg400],
               [status |-> 429, msg |-> Msg429]}

\* response.content[0].text
Texts == {<<"{json}">>,
          <<"<fence>json", "<nl>", "{json}", "<nl>", "<fence>">>,
          <<"prose">>}

Outcomes == {[raised |-> TRUE, status |-> e.status, msg |-> e.msg, text |-> <<>>] :
                e \in Exceptions}
            \cup {[raised |-> FALSE, status |-> 200, msg |-> <<>>, text |-> t] :
                t \in Texts}

IsFence(tok) == tok \in {"<fence>", "<fence>json"}

RECURSIVE Strip(_)
Strip(t) ==
    IF t # <<>> /\ Head(t) = "<nl>" THEN Strip(Tail(t))
    ELSE IF t # <<>> /\ t[Len(t)] = "<nl>" THEN Strip(SubSeq(t, 1, Len(t) - 1))
    ELSE t

\* raw_text.split("\n", 1)[1]
AfterFirstLine(t) ==
    LET k == CHOOSE j \in 1..Len(t) : t[j] = "<nl>" /\ \A m \in 1..(j - 1) : t[m] # "<nl>"
    IN SubSeq(t, k + 1, Len(t))

\* raw_text.rsplit(fence, 1)[0]
BeforeLastFence(t) ==
    IF \E j \in 1..Len(t) : t[j] = "<fence>"
    THEN LET k == CHOOSE j \in 1..Len(t) :
                    t[j] = "<fence>" /\ \A m \in (j + 1)..Len(t) : t[m] # "<fence>"
         IN SubSeq(t, 1, k - 1)
    ELSE t

\* Lines 137-143: strip, and strip the markdown code fence if present.
\* (A fence with no line break raises IndexError; no text of Texts has one.)
strip_fences(text) ==
    LET raw == Strip(text)
    IN IF raw # <<>> /\ IsFence(Head(raw))
       THEN Strip(BeforeLastFence(AfterFirstLine(raw)))
       ELSE raw

\* json.loads succeeds on the JSON object only.
IsJson(raw) == raw = <<"{json}">>

\* str(e) of the json.JSONDecodeError json.loads raises on "prose":
\* "Expecting value: line 1 column 1 (char 0)".  The decoder writes one of its
\* fixed messages and the position; none of them reaches 100 characters.
JsonErrorMsg ==
    <<"E", "x", "p", "e", "c", "t", "i", "n", "g", " ", "v", "a", "l", "u", "e", ":",
      " ", "l", "i", "n", "e", " ", "1", " ", "c", "o", "l", "u", "m", "n", " ", "1",
      " ", "(", "c", "h", "a", "r", " ", "0", ")">>

\* The three keys of the object "{json}".
parsed_result ==
    [short_description |-> Str("short"), long_description |-> Str("long"),
     tags |-> Str("tag1, tag2")]

_error_result(detail) ==
    [short_description |-> Str("Error analyzing image"),
     long_description |-> <<"API error: ">> \o detail,
     tags |-> Str("error, failed_analysis")]

NoAnalysis == [short_description |-> <<>>, long_description |-> <<>>, tags |-> <<>>]

\* any(code in error_msg for code in ["429", "500", "502", "503", "529"])
is_retryable(o) == \E code \in RETRYABLE_CODES : Contains(code, o.msg)

\* 2 ** attempt * DELAY_BETWEEN_REQUESTS
retry_wait_fixed(attempt) == DELAY_BETWEEN_REQUESTS
retry_wait(attempt) == Pow2(attempt) * DELAY_BETWEEN_REQUESTS

\* time.sleep(2 ** attempt), in milliseconds
json_wait(attempt) == Pow2(attempt) * 1000

\* attempt < MAX_RETRIES
may_retry(attempt) == attempt < MAX_RETRIES

\* The row process_images writes for a file.
record_row(name, analysis, orient) ==
    <<Str(name), analysis.short_description, analysis.long_description,
      analysis.tags, Str(orient)>>

\* One pass of the body of analyze_image's retry loop, on outcome o of the
\* API call of `attempt`: return a result, or sleep and go round again.
attempt_step(o, attempt) ==
    IF ~o.raised
    THEN IF IsJson(strip_fences(o.text))
         THEN [then |-> "return", result |-> parsed_result, sleep |-> 0]
         ELSE \* except json.JSONDecodeError
              IF may_retry(attempt)
              THEN [then |-> "retry", result |-> NoAnalysis, sleep |-> json_wait(attempt)]
              ELSE [then |-> "return",
                    result |-> _error_result(<<"JSON parse error: ">> \o JsonErrorMsg),
                    sleep |-> 0]
    ELSE \* except Exception
         IF is_retryable(o) /\ may_retry(attempt)
         THEN [then |-> "retry", result |-> NoAnalysis, sleep |-> retry_wait(attempt)]
         ELSE [then |-> "return",
               result |-> _error_result(Take(o.msg, ERROR_DETAIL_LIMIT)),
               sleep |-> 0]

\* csvfile.flush(): the buffered rows reach the file.
flush_nothing(file, buffer) == [file |-> file, buffer |-> buffer]
flush(file, buffer) ==
    [file |-> [file EXCEPT !.rows = @ \o buffer], buffer |-> <<>>]

\* Leaving the with block closes the file, which flushes it.
close(file, buffer) == [file EXCEPT !.rows = @ \o buffer]

\* time.sleep(DELAY_BETWEEN_REQUESTS) at the end of the loop body.
rate_limit_sleep_half == DELAY_BETWEEN_REQUESTS \div 2
rate_limit_sleep == DELAY_BETWEEN_REQUESTS

\* -------------------------------------------------------------------- state
VARIABLES
    script,       \* which script this behaviour runs
    dir,          \* the image directory: [exists, files]
    csv,          \* the output CSV on disk: [exists, rows]
    pc,           \* where the process is; "idle": no process is running
    to_process,   \* the work set of the run
    idx,          \* position of the loop in to_process
    buf,          \* rows written to the file object and not flushed yet
    orientation,  \* of the file being processed
    attempt,      \* analyze_image's loop variable
    analysis,     \* what analyze_image returned
    inflight,     \* API requests sent and not answered
    runs,         \* processes started so far
    exit,         \* how the latest process ended
    hist          \* history: what the properties below speak about

vars == <<script, dir, csv, pc, to_process, idx, buf, orientation, attempt,
          analysis, inflight, runs, exit, hist>>

\* hist.outcomes  the outcomes of the API calls of the current analyze_image call
\* hist.waits     the sleeps between them
\* hist.pause     total sleep since the last API response of this process (NoCall: none yet)
\* hist.analysed  the files analyze_image has returned for in this run
\* hist.runCalls  API calls issued by the latest process
\* hist.before    the rows of the CSV when the latest process started
\* hist.full      the last run that completed over all files of the directory
NoCall == 0 - 1
NoFull == [valid |-> FALSE, files |-> {}, rows |-> <<>>, rerun |-> FALSE]

AbsentFile == [exists |-> FALSE, rows |-> <<>>]
EmptyFile == [exists |-> TRUE, rows |-> <<>>]

InitHist ==
    [outcomes |-> <<>>, waits |-> <<>>, pause |-> NoCall, analysed |-> {},
     runCalls |-> 0, before |-> <<>>, full |-> NoFull]

InitCommon ==
    /\ dir \in {[exists |-> FALSE, files |-> {}]}
               \cup {[exists |-> TRUE, files |-> S] : S \in SUBSET Entries}
    /\ csv \in {AbsentFile, EmptyFile}
    /\ pc = "idle"
    /\ to_process = <<>>
    /\ idx = 0
    /\ buf = <<>>
    /\ orientation = ""
    /\ attempt = 0
    /\ analysis = NoAnalysis
    /\ inflight = 0
    /\ runs = 0
    /\ exit = "none"
    /\ hist = InitHist

Init == script = "v2" /\ InitCommon

\* The names of the files that have a record in the rows.
Filenames(rows) == {r[1] : r \in Range(Records(rows))}

Locals0 ==
    /\ idx' = 0
    /\ buf' = <<>>
    /\ orientation' = ""
    /\ attempt' = 0
    /\ analysis' = NoAnalysis
    /\ inflight' = 0

\* The process returns before it opens the file.
EarlyReturn(how) ==
    /\ pc' = "idle"
    /\ exit' = how
    /\ to_process' = <<>>
    /\ csv' = csv
    /\ Locals0

\* ---------------------------------------------------- v2: process_images
\* Lines 200-244: scan, resume filter, open the CSV, write the header.
process_images_start ==
    /\ pc = "idle"
    /\ script = "v2"
    /\ runs < MaxRuns
    /\ runs' = runs + 1
    /\ hist' = [hist EXCEPT !.outcomes = <<>>, !.waits = <<>>, !.pause = NoCall,
                            !.analysed = {}, !.runCalls = 0, !.before = csv.rows,
                            !.full = IF @.valid THEN [@ EXCEPT !.rerun = TRUE] ELSE @]
    /\ UNCHANGED <<script, dir>>
    /\ IF ~dir.exists
       THEN EarlyReturn("no_directory")
       ELSE LET image_files ==
                    Sorted({f \in dir.files : Lower(Suffix(f)) \in SUPPORTED_EXTENSIONS})
                already_done == load_existing_results(csv)
                work == resume_filter(image_files, already_done)
            IN IF image_files = <<>>
               THEN EarlyReturn("no_images")
               ELSE IF work = <<>>
               THEN EarlyReturn("nothing_new")
               ELSE /\ to_process' = work
                    /\ csv' = open_append(csv)
                    /\ buf' = IF write_header(csv) THEN <<FIELDNAMES>> ELSE <<>>
                    /\ idx' = 1
                    /\ pc' = "loop"
                    /\ exit' = "running"
                    /\ orientation' = ""
                    /\ attempt' = 0
                    /\ analysis' = NoAnalysis
                    /\ inflight' = 0

\* Line 247: get_orientation(img_path) on an image Image.open can decode;
\* analyze_image starts.
process_images_orientation ==
    /\ pc = "loop"
    /\ script = "v2"
    /\ idx <= Len(to_process)
    /\ orientation' = get_orientation(ImageSize(to_process[idx]))
    /\ attempt' = 1
    /\ pc' = "request"
    /\ hist' = [hist EXCEPT !.outcomes = <<>>, !.waits = <<>>]
    /\ UNCHANGED <<script, dir, csv, to_process, idx, buf, analysis, inflight, runs, exit>>

\* Line 247: Image.open raises; nothing catches it, the with block closes the
\* file (flushing it) and the process dies with the traceback.
process_images_unreadable ==
    /\ pc = "loop"
    /\ script = "v2"
    /\ idx <= Len(to_process)
    /\ csv' = close(csv, buf)
    /\ pc' = "idle"
    /\ exit' = "crashed"
    /\ Locals0
    /\ UNCHANGED <<script, dir, to_process, runs, hist>>

\* Lines 114-134: client.messages.create is called.
analyze_image_request ==
    /\ pc = "request"
    /\ inflight' = inflight + 1
    /\ pc' = "await"
    /\ hist' = [hist EXCEPT !.runCalls = @ + 1]
    /\ UNCHANGED <<script, dir, csv, to_process, idx, buf, orientation, attempt,
                   analysis, runs, exit>>

\* Lines 136-176: the call returns or raises.
analyze_image_response ==
    /\ pc = "await"
    /\ \E o \in Outcomes :
          LET step == attempt_step(o, attempt)
              out == Append(hist.outcomes, o)
          IN /\ inflight' = inflight - 1
             /\ IF step.then = "return"
                THEN /\ analysis' = step.result
                     /\ attempt' = attempt
                     /\ pc' = "write"
                     /\ hist' = [hist EXCEPT !.outcomes = out, !.pause = 0,
                                             !.analysed = @ \cup {to_process[idx]}]
                ELSE IF attempt < MAX_RETRIES
                THEN /\ analysis' = analysis
                     /\ attempt' = attempt + 1
                     /\ pc' = "request"
                     /\ hist' = [hist EXCEPT !.outcomes = out, !.pause = step.sleep,
                                             !.waits = Append(@, step.sleep)]
                ELSE \* the for loop is exhausted (line 176)
                     /\ analysis' = _error_result(<<"Max retries exceeded">>)
                     /\ attempt' = attempt
                     /\ pc' = "write"
                     /\ hist' = [hist EXCEPT !.outcomes = out, !.pause = step.sleep,
                                             !.waits = Append(@, step.sleep),
                                             !.analysed = @ \cup {to_process[idx]}]
    /\ UNCHANGED <<script, dir, csv, to_process, idx, buf, orientation, runs, exit>>

\* Lines 250-256: writer.writerow
process_images_writerow ==
    /\ pc = "write"
    /\ script = "v2"
    /\ buf' = Append(buf, record_row(to_process[idx], analysis, orientation))
    /\ pc' = "flush"
    /\ UNCHANGED <<script, dir, csv, to_process, idx, orientation, attempt, analysis,
                   inflight, runs, exit, hist>>

\* Line 259: csvfile.flush()
process_images_flush ==
    /\ pc = "flush"
    /\ csv' = flush(csv, buf).file
    /\ buf' = flush(csv, buf).buffer
    /\ pc' = "sleep"
    /\ UNCHANGED <<script, dir, to_process, idx, orientation, attempt, analysis,
                   inflight, runs, exit, hist>>

\* Line 262: time.sleep(DELAY_BETWEEN_REQUESTS), and the loop goes on.
process_images_sleep ==
    /\ pc = "sleep"
    /\ idx' = idx + 1
    /\ pc' = "loop"
    /\ hist' = [hist EXCEPT !.pause = @ + rate_limit_sleep,
                            !.outcomes = <<>>, !.waits = <<>>]
    /\ orientation' = ""
    /\ attempt' = 0
    /\ analysis' = NoAnalysis
    /\ UNCHANGED <<script, dir, csv, to_process, buf, inflight, runs, exit>>

\* Lines 264-265: the loop is over, the with block closes the file.
process_images_done ==
    /\ pc = "loop"
    /\ script = "v2"
    /\ idx > Len(to_process)
    /\ csv' = close(csv, buf)
    /\ pc' = "idle"
    /\ exit' = "completed"
    /\ hist' = [hist EXCEPT !.full = [valid |-> TRUE, files |-> dir.files,
                                      rows |-> close(csv, buf).rows,
                                      rerun |-> FALSE]]
    /\ Locals0
    /\ UNCHANGED <<script, dir, to_process, runs>>

\* The process is killed: by SIGKILL, and what the file object buffers is lost, or
\* by SIGINT, and the KeyboardInterrupt closes the file on its way out.
Kill ==
    /\ pc # "idle"
    /\ \E flushed \in BOOLEAN :
          csv' = IF flushed THEN close(csv, buf) ELSE csv
    /\ pc' = "idle"
    /\ exit' = "killed"
    /\ Locals0
    /\ hist' = [hist EXCEPT !.outcomes = <<>>, !.waits = <<>>]
    /\ UNCHANGED <<script, dir, to_process, runs>>

\* Between runs, an image is added to the directory.
AddImage ==
    /\ pc = "idle"
    /\ dir.exists
    /\ \E f \in Entries \ dir.files :
          dir' = [dir EXCEPT !.files = @ \cup {f}]
    /\ UNCHANGED <<script, csv, pc, to_process, idx, buf, orientation, attempt,
                   analysis, inflight, runs, exit, hist>>

Next ==
    \/ process_images_start
    \/ process_images_orientation
    \/ process_images_unreadable
    \/ analyze_image_request
    \/ analyze_image_response
    \/ process_images_writerow
    \/ process_images_flush
    \/ process_images_sleep
    \/ process_images_done
    \/ Kill
    \/ AddImage

Spec == Init /\ [][Next]_vars

\* ------------------------------------------- v1: kapok-tree-tagger-anthropic.py
\* f.lower().endswith(('.jpg', '.jpeg', '.png')), in both earlier scripts
LEGACY_EXTENSIONS == {".jpg", ".jpeg", ".png"}

legacy_images(files) == {f \in files : Lower(Suffix(f)) \in LEGACY_EXTENSIONS}

\* os.listdir returns the entries in arbitrary order.
Orders(S) ==
    {q \in [1..Cardinality(S) -> S] : \A m, n \in 1..Cardinality(S) : q[m] = q[n] => m = n}

\* open(csv_filename, 'w'): creates the file, or truncates it.
open_write(file) == [exists |-> TRUE, rows |-> <<>>]

\* A line of the reply, by what the parser reads of it: mark k when "k." is in
\* line[:3], label k when the k-th heading is in the line, whether it holds a
\* colon, the text after the first colon, line[2:] and the whole line, stripped.
ReplyLine(mark, label, colon, after_colon, after2, whole) ==
    [mark |-> mark, label |-> label, colon |-> colon, after_colon |-> after_colon,
     after2 |-> after2, whole |-> whole]

V1Reply ==
    <<ReplyLine(1, 1, TRUE, <<"S">>, <<" Short description: S">>, <<"1. Short description: S">>),
      ReplyLine(2, 2, TRUE, <<"L1">>, <<" Detailed description: L1">>,
                <<"2. Detailed description: L1">>),
      ReplyLine(0, 0, FALSE, <<>>, <<"2">>, <<"L2">>),
      ReplyLine(3, 0, FALSE, <<>>, <<"T1, T2">>, <<"3. T1, T2">>)>>

\* Lines 94-111: the body of the loop over the lines of the reply.
v1_parse_line(st, ln) ==
    LET value == IF ln.colon THEN ln.after_colon ELSE ln.after2
    IN IF ln.mark = 1 \/ ln.label = 1
       THEN [st EXCEPT !.section = 1, !.short_description = value]
       ELSE IF ln.mark = 2 \/ ln.label = 2
       THEN [st EXCEPT !.section = 2, !.long_description = value]
       ELSE IF ln.mark = 3 \/ ln.label = 3
       THEN [st EXCEPT !.section = 3, !.tags = value]
       ELSE IF st.section = 1 /\ st.short_description = <<>>
       THEN [st EXCEPT !.short_description = ln.whole]
       ELSE IF st.section = 2 /\ st.long_description = <<>>
       THEN [st EXCEPT !.long_description = ln.whole]
       ELSE IF st.section = 2
       THEN [st EXCEPT !.long_description = @ \o <<" ">> \o ln.whole]
       ELSE IF st.section = 3 /\ st.tags = <<>>
       THEN [st EXCEPT !.tags = ln.whole]
       ELSE st

RECURSIVE v1_parse(_, _)
v1_parse(st, lines) ==
    IF lines = <<>> THEN st ELSE v1_parse(v1_parse_line(st, Head(lines)), Tail(lines))

V1Outcomes == {[kind |-> "ok", msg |-> <<>>],
               [kind |-> "http_error", msg |-> Msg401],
               [kind |-> "exception", msg |-> <<>>]}

\* Lines 75-134: what analyze_image_claude returns on an outcome of the request.
analyze_image_claude(o) ==
    IF o.kind = "ok"
    THEN LET st == v1_parse([section |-> 0, short_description |-> <<>>,
                             long_description |-> <<>>, tags |-> <<>>], V1Reply)
         IN [short_description |-> st.short_description,
             long_description |-> st.long_description, tags |-> st.tags]
    ELSE IF o.kind = "http_error"
    THEN [short_description |-> Str("Error analyzing image"),
          long_description |->
              <<"There was an error analyzing this image with the API: ">> \o o.msg,
          tags |-> Str("error, failed_analysis")]
    ELSE [short_description |-> Str("Error analyzing image"),
          long_description |-> Str("There was an error analyzing this image with the API."),
          tags |-> Str("error, failed_analysis")]

StartHist == [hist EXCEPT !.outcomes = <<>>, !.waits = <<>>, !.pause = NoCall,
                          !.analysed = {}, !.runCalls = 0, !.before = csv.rows]

\* Lines 137-158: scan, open the CSV for writing, write the header.
v1_process_images_start ==
    /\ pc = "idle"
    /\ script = "v1"
    /\ runs < MaxRuns
    /\ runs' = runs + 1
    /\ hist' = StartHist
    /\ UNCHANGED <<script, dir>>
    /\ IF ~dir.exists
       THEN EarlyReturn("no_directory")
       ELSE IF legacy_images(dir.files) = {}
       THEN EarlyReturn("no_images")
       ELSE /\ to_process' \in Orders(legacy_images(dir.files))
            /\ csv' = open_write(csv)
            /\ buf' = <<FIELDNAMES>>
            /\ idx' = 1
            /\ pc' = "v1_loop"
            /\ exit' = "running"
            /\ orientation' = ""
            /\ attempt' = 0
            /\ analysis' = NoAnalysis
            /\ inflight' = 0

\* Line 165: get_orientation; lines 28-80: the request is posted.
v1_request ==
    /\ pc = "v1_loop"
    /\ idx <= Len(to_process)
    /\ orientation' = get_orientation(ImageSize(to_process[idx]))
    /\ inflight' = inflight + 1
    /\ pc' = "v1_await"
    /\ hist' = [hist EXCEPT !.runCalls = @ + 1]
    /\ UNCHANGED <<script, dir, csv, to_process, idx, buf, attempt, analysis, runs, exit>>

\* Line 165: Image.open raises, and the process dies; the file is closed.
v1_unreadable ==
    /\ pc = "v1_loop"
    /\ idx <= Len(to_process)
    /\ csv' = close(csv, buf)
    /\ pc' = "idle"
    /\ exit' = "crashed"
    /\ Locals0
    /\ UNCHANGED <<script, dir, to_process, runs, hist>>

\* Lines 81-134 and 171-177: the reply is parsed and the row written (buffered;
\* this script never flushes).
v1_response ==
    /\ pc = "v1_await"
    /\ \E o \in V1Outcomes :
          buf' = Append(buf, record_row(to_process[idx], analyze_image_claude(o),
                                        orientation))
    /\ inflight' = inflight - 1
    /\ idx' = idx + 1
    /\ pc' = "v1_loop"
    /\ orientation' = ""
    /\ UNCHANGED <<script, dir, csv, to_process, attempt, analysis, runs, exit, hist>>

\* The file object's buffer is full and goes to the file.
v1_buffer_full ==
    /\ pc \in {"v1_loop", "v1_await"}
    /\ buf # <<>>
    /\ csv' = close(csv, buf)
    /\ buf' = <<>>
    /\ UNCHANGED <<script, dir, pc, to_process, idx, orientation, attempt, analysis,
                   inflight, runs, exit, hist>>

\* Line 179: the loop is over and the file closed.
v1_done ==
    /\ pc = "v1_loop"
    /\ idx > Len(to_process)
    /\ csv' = close(csv, buf)
    /\ pc' = "idle"
    /\ exit' = "completed"
    /\ Locals0
    /\ UNCHANGED <<script, dir, to_process, runs, hist>>

\* --------------------------------------------- gemini: kapok-tree-image-tagger.py
\* response.text
GeminiReply == <<"D1", "<nl>", "D2", "<nl>">>

\* response.text.replace('\n', ' ').strip()
RECURSIVE StripSpaces(_)
StripSpaces(t) ==
    IF t # <<>> /\ Head(t) = " " THEN StripSpaces(Tail(t))
    ELSE IF t # <<>> /\ t[Len(t)] = " " THEN StripSpaces(SubSeq(t, 1, Len(t) - 1))
    ELSE t

gemini_description(text) ==
    StripSpaces([k \in 1..Len(text) |-> IF text[k] = "<nl>" THEN " " ELSE text[k]])

\* Lines 11-19: scan, open the CSV for writing, write the header.  os.listdir
\* raises when the directory is missing, before the file is opened.
gemini_main_start ==
    /\ pc = "idle"
    /\ script = "gemini"
    /\ runs < MaxRuns
    /\ runs' = runs + 1
    /\ hist' = StartHist
    /\ UNCHANGED <<script, dir>>
    /\ IF ~dir.exists
       THEN EarlyReturn("crashed")
       ELSE /\ to_process' = Sorted(legacy_images(dir.files))
            /\ csv' = open_write(csv)
            /\ buf' = <<GEMINI_FIELDNAMES>>
            /\ idx' = 1
            /\ pc' = "gemini_loop"
            /\ exit' = "running"
            /\ orientation' = ""
            /\ attempt' = 0
            /\ analysis' = NoAnalysis
            /\ inflight' = 0

\* Lines 27-32: time.sleep(10), then the request.
gemini_request ==
    /\ pc = "gemini_loop"
    /\ idx <= Len(to_process)
    /\ inflight' = inflight + 1
    /\ pc' = "gemini_await"
    /\ hist' = [hist EXCEPT !.runCalls = @ + 1,
                            !.pause = IF @ = NoCall THEN 10000 ELSE @ + 10000]
    /\ UNCHANGED <<script, dir, csv, to_process, idx, buf, orientation, attempt,
                   analysis, runs, exit>>

\* Lines 35-39: the reply is written as a row.
gemini_response ==
    /\ pc = "gemini_await"
    /\ buf' = Append(buf, <<Str(to_process[idx]), gemini_description(GeminiReply),
                            Str("check_description_text")>>)
    /\ inflight' = inflight - 1
    /\ pc' = "gemini_flush"
    /\ hist' = [hist EXCEPT !.pause = 0]
    /\ UNCHANGED <<script, dir, csv, to_process, idx, orientation, attempt, analysis,
                   runs, exit>>

\* Line 40: csvfile.flush()
gemini_flush ==
    /\ pc = "gemini_flush"
    /\ csv' = flush(csv, buf).file
    /\ buf' = flush(csv, buf).buffer
    /\ idx' = idx + 1
    /\ pc' = "gemini_loop"
    /\ UNCHANGED <<script, dir, to_process, orientation, attempt, analysis, inflight,
                   runs, exit, hist>>

\* Lines 43-44: Image.open or the request raises; the error is printed and the
\* file gets no row.
gemini_error ==
    /\ pc \in {"gemini_loop", "gemini_await"}
    /\ idx <= Len(to_process)
    /\ inflight' = 0
    /\ idx' = idx + 1
    /\ pc' = "gemini_loop"
    /\ UNCHANGED <<script, dir, csv, to_process, buf, orientation, attempt, analysis,
                   runs, exit, hist>>

\* Line 46: the loop is over and the file closed.
gemini_done ==
    /\ pc = "gemini_loop"
    /\ idx > Len(to_process)
    /\ csv' = close(csv, buf)
    /\ pc' = "idle"
    /\ exit' = "completed"
    /\ Locals0
    /\ UNCHANGED <<script, dir, to_process, runs, hist>>

\* Any of the three scripts, each on its own output CSV.
InitAll == script \in {"v2", "v1", "gemini"} /\ InitCommon

NextAll ==
    \/ Next
    \/ v1_process_images_start
    \/ v1_request
    \/ v1_unreadable
    \/ v1_response
    \/ v1_buffer_full
    \/ v1_done
    \/ gemini_main_start
    \/ gemini_request
    \/ gemini_response
    \/ gemini_flush
    \/ gemini_error
    \/ gemini_done

SpecAll == InitAll /\ [][NextAll]_vars

\* =============================================================== properties
\* The files of the work set the run has not written a row for yet.
Pending ==
    {to_process[j] : j \in {k \in 1..Len(to_process) :
        /\ pc # "idle"
        /\ k > idx \/ (k = idx /\ pc \in {"loop", "request", "await", "write"})}}

NoDuplicates(rows) ==
    \A m, n \in 1..Len(rows) :
        (m < n /\ rows[m] # FIELDNAMES /\ rows[n] # FIELDNAMES) => rows[m][1] # rows[n][1]

IsSentinel(a) ==
    /\ a.short_description = Str("Error analyzing image")
    /\ a.tags = Str("error, failed_analysis")
    /\ Len(a.long_description) > 1
    /\ Head(a.long_description) = "API error: "

IsSentinelRow(r) == Len(r) = 5 /\ r[2] = Str("Error analyzing image")

\* The statuses the spec names as retryable.
RETRYABLE_STATUS == {429, 500, 502, 503, 529}

Succeeded(o) == ~o.raised /\ IsJson(strip_fences(o.text))
ParseFailure(o) == ~o.raised /\ ~IsJson(strip_fences(o.text))
RetryableFailure(o) == ParseFailure(o) \/ (o.raised /\ o.status \in RETRYABLE_STATUS)
NonRetryable(o) == o.raised /\ o.status \notin RETRYABLE_STATUS
Returned == pc \in {"write", "flush", "sleep"}

\* C1: after a run that completed over all files of the directory, a second run
\* on the unchanged directory and CSV returns at once: it issues no API call and
\* leaves the CSV as the first run left it.
C1_RerunDoesNothing ==
    (hist.full.valid /\ hist.full.rerun /\ hist.full.files = dir.files)
        => /\ pc = "idle"
           /\ hist.runCalls = 0
           /\ csv.rows = hist.full.rows

C1_Witness ==
    /\ hist.full.valid /\ hist.full.rerun /\ hist.full.files = dir.files
    /\ exit = "nothing_new"
    /\ Len(Records(csv.rows)) >= 2

\* C2: no filename has two records in the ledger (written or still buffered), and
\* no file the run still has to process has a record already.
C2_NoDuplicateFilenames ==
    /\ NoDuplicates(csv.rows \o buf)
    /\ \A f \in Pending : Str(f) \notin Filenames(csv.rows \o buf)

C2_Witness ==
    /\ runs >= 2
    /\ pc = "await"
    /\ Len(Records(hist.before)) >= 1
    /\ exit = "running"

\* C3: when the API call for a file is issued, the records of all earlier files of
\* the work set are in the file on disk; and whatever happens to the process, at
\* most one analysed file has no record on disk.
C3_FlushedBeforeNextCall ==
    /\ pc \in {"request", "await"}
        => \A j \in 1..(idx - 1) : Str(to_process[j]) \in Filenames(csv.rows)
    /\ Cardinality({f \in hist.analysed : Str(f) \notin Filenames(csv.rows)}) <= 1

C3_Witness ==
    /\ pc = "idle"
    /\ exit = "killed"
    /\ Cardinality(hist.analysed) >= 2
    /\ Cardinality({f \in hist.analysed : Str(f) \notin Filenames(csv.rows)}) = 1

\* C4: when all MAX_RETRIES attempts fail with a retryable failure, analyze_image
\* returns the sentinel record with a non-empty detail; the row written for a file
\* is the same function of the analysis for a sentinel as for a success; and no
\* file with a sentinel record in the ledger is pending in a run.
C4_ExhaustedRetriesRecorded ==
    /\ (Len(hist.outcomes) = MAX_RETRIES
        /\ \A k \in 1..Len(hist.outcomes) : RetryableFailure(hist.outcomes[k]))
        => Returned /\ IsSentinel(analysis)
    /\ pc = "flush"
        => buf[Len(buf)] = record_row(to_process[idx], analysis, orientation)
    /\ \A r \in Range(Records(csv.rows)) :
          IsSentinelRow(r) => r[1] \notin {Str(f) : f \in Pending}

C4_Witness ==
    /\ exit = "nothing_new"
    /\ hist.runCalls = 0
    /\ \E r \in Range(Records(csv.rows)) :
          /\ IsSentinelRow(r)
          /\ r[3] = <<"API error: ", "JSON parse error: ">> \o JsonErrorMsg

\* C5: analyze_image makes at most MAX_RETRIES API calls for a file; after a 429
\* on attempts 1 and 2 it has slept 2*DELAY and 4*DELAY and makes a third call,
\* and when that call returns valid JSON it returns the parsed record.
Is429(o) == o.raised /\ o.status = 429

C5_BackoffThenSuccess ==
    /\ Len(hist.outcomes) + inflight <= MAX_RETRIES
    /\ (Len(hist.outcomes) >= 2 /\ Is429(hist.outcomes[1]) /\ Is429(hist.outcomes[2]))
        => /\ hist.waits = <<2 * DELAY_BETWEEN_REQUESTS, 4 * DELAY_BETWEEN_REQUESTS>>
           /\ Len(hist.outcomes) = 2 => pc \in {"request", "await"} /\ attempt = 3
           /\ (Len(hist.outcomes) = 3 /\ Succeeded(hist.outcomes[3]))
                => Returned /\ analysis = parsed_result

C5_Witness ==
    /\ pc = "write"
    /\ Len(hist.outcomes) = 3
    /\ Is429(hist.outcomes[1]) /\ Is429(hist.outcomes[2])
    /\ Succeeded(hist.outcomes[3])

\* C6: an API call that fails with a non-retryable error (any exception that is
\* neither a JSON parse failure nor an API error of status 429, 500, 502, 503 or
\* 529) is the last call for its file: analyze_image returns the sentinel with no
\* sleep after it.
C6_NonRetryableReturnsAtOnce ==
    \A k \in 1..Len(hist.outcomes) :
        NonRetryable(hist.outcomes[k])
            => /\ k = Len(hist.outcomes)
               /\ Returned
               /\ IsSentinel(analysis)
               /\ Len(hist.waits) = k - 1

\* C7: a run that is not killed records every file of its work set that comes
\* after a file it could not record.
C7_PerFileErrorDoesNotAbort ==
    (pc = "idle" /\ exit \in {"completed", "crashed"})
        => \A j, k \in 1..Len(to_process) :
              (j < k /\ Str(to_process[j]) \notin Filenames(csv.rows))
                  => Str(to_process[k]) \in Filenames(csv.rows)

\* C8 as stated: after a run that opened the CSV, the file holds exactly one
\* header row, its first row.
C8_AlwaysOneHeader ==
    (pc = "idle" /\ exit \in {"completed", "killed", "crashed"})
        => /\ HeaderCount(csv.rows) = 1
           /\ csv.rows[1] = FIELDNAMES

\* C8 as amended: the file never holds more than one header row, and when it is
\* not empty it holds exactly one, its first row; a run on an absent or zero-byte
\* file writes the header before its first record, a run on a file with content
\* writes none; after a completed run the file holds exactly one header row.
C8_HeaderFirstWhenNotEmpty ==
    /\ HeaderCount(csv.rows \o buf) <= 1
    /\ csv.rows # <<>> => csv.rows[1] = FIELDNAMES
    /\ (pc # "idle" /\ hist.before = <<>>) => (csv.rows \o buf)[1] = FIELDNAMES
    /\ (pc # "idle" /\ hist.before # <<>>) => FIELDNAMES \notin Range(buf)
    /\ (pc = "idle" /\ exit = "completed") => HeaderCount(csv.rows) = 1

C8_Witness ==
    /\ runs >= 2
    /\ hist.before # <<>>
    /\ Len(csv.rows) > Len(hist.before)
    /\ HeaderCount(csv.rows) = 1

\* C9 as stated: the pause between an API response and the next API request of
\* the process is DELAY_BETWEEN_REQUESTS, and at most one request is in flight.
C9_FixedPauseBeforeEveryRequest ==
    /\ inflight <= 1
    /\ (pc = "await" /\ hist.pause # NoCall) => hist.pause = DELAY_BETWEEN_REQUESTS

\* C9 as amended: at most one request is in flight; the pause before the first
\* request for a file is DELAY_BETWEEN_REQUESTS, and before a retry it is the
\* backoff of the failed attempt: 2^attempt * DELAY_BETWEEN_REQUESTS after an
\* exception, 2^attempt seconds after a parse failure.
C9_PauseBeforeEveryRequest ==
    /\ inflight <= 1
    /\ (pc = "await" /\ hist.pause # NoCall)
        => IF attempt = 1
           THEN hist.pause = DELAY_BETWEEN_REQUESTS
           ELSE LET failed == hist.outcomes[attempt - 1]
                IN hist.pause = IF failed.raised
                                THEN Pow2(attempt - 1) * DELAY_BETWEEN_REQUESTS
                                ELSE Pow2(attempt - 1) * 1000

C9_Witness ==
    /\ pc = "await"
    /\ idx = 2
    /\ attempt = 3
    /\ hist.pause = 4 * DELAY_BETWEEN_REQUESTS

\* C10 as stated: in every run of every batch script, the records the CSV held
\* before the run are a prefix of the records it holds at every later point.
C10_EveryScriptAppendsOnly ==
    IsPrefix(Records(hist.before), Records(csv.rows))

\* C10 as amended: that holds of every run of process_images of the v2 script;
\* the two earlier scripts open their CSV for writing and so empty it.
C10_V2AppendsOnly ==
    script = "v2" => IsPrefix(Records(hist.before), Records(csv.rows))

C10_Witness ==
    /\ script = "v2"
    /\ Records(hist.before) # <<>>
    /\ Len(Records(csv.rows)) > Len(Records(hist.before))

\* The number of characters of a text: the tokens that stand for a literal of
\* the source count its characters, every other token is one character.
TokenLen(tok) ==
    CASE tok = "JSON parse error: " -> 18
      [] tok = "API error: " -> 11
      [] tok = "Max retries exceeded" -> 20
      [] OTHER -> 1

\* len(t): one for every token, and the rest of each literal's characters.
LiteralAt(t) == {k \in 1..Len(t) : TokenLen(t[k]) > 1}

RECURSIVE Extra(_, _)
Extra(t, S) ==
    IF S = {} THEN 0
    ELSE LET k == CHOOSE j \in S : TRUE
         IN  (TokenLen(t[k]) - 1) + Extra(t, S \ {k})

TextLen(t) == Len(t) + Extra(t, LiteralAt(t))

\* The detail of a sentinel: its long description after "API error: ".
Detail(a) == Tail(a.long_description)

LastOutcome == hist.outcomes[Len(hist.outcomes)]

====
